---- MODULE Spec2Model ----
(***************************************************************************)
(* A model of the VFS core of HanOS (kernel/fs/vfs.c).                     *)
(*                                                                         *)
(* Tasks call the VFS operations concurrently.  A task that calls          *)
(* lock_lock(&vfs_lock) takes one step to get the lock (Call) and one      *)
(* step to run the locked region of its operation and release the lock.    *)
(* The parts of an operation that run without the lock (a failed handle    *)
(* lookup, the read-only test of vfs_write, all of vfs_chmod) are steps    *)
(* that any task takes at any time.                                        *)
(*                                                                         *)
(* Heap objects live in arenas (ino, fdmem).  An inode block keeps its     *)
(* contents after kmfree and is handed out again by a later allocation:    *)
(* a pointer to a freed inode sees the retained contents or the inode      *)
(* that now occupies the block.  vfs_close reads its descriptor after      *)
(* kmfree: the reads see the descriptor's fields or something else, or     *)
(* stop the kernel (fault).                                                *)
(***************************************************************************)
EXTENDS Integers, Sequences, FiniteSets, TLC

(* ------------------------------ bounds --------------------------------- *)

NumTasks == 2
MaxHandles == 2
MaxFds == 3
MaxInodes == 6
MaxSize == 2
MaxLen == 2
WordBits == 4
ListingSize == 1
MaxIds == 3
MaxTty == 1
MaxPathLen == 4

(* ------------------------- program constants --------------------------- *)

VFS_MIN_HANDLE == 100
VFS_INVALID_HANDLE == -1
SEEK_SET == 3
SEEK_CUR == 1
SEEK_END == 2

Tasks == 1 .. NumTasks
M == 2 ^ WordBits
Word == 0 .. (M - 1)

\* size_t arithmetic wraps; (int64_t)x reinterprets the top half as negative
ToSigned(x) == IF x >= M \div 2 THEN x - M ELSE x

Modes == {"READ", "READWRITE"}
NodeTypes == {"FOLDER", "FILE", "MOUNTPOINT", "BLOCK_DEVICE"}
S_IRWXUGO == {"u", "g", "o"}

Root == << >>
NoPath == <<"-">>
TreePaths == {Root, <<"a">>, <<"disk">>, <<"dev">>, <<"dev", "tty">>,
              <<"dev", "pipe">>}
Parent(p) == SubSeq(p, 1, Len(p) - 1)

\* the inputs of the operations
LifePaths == {<<"a">>, <<"disk">>, <<"x", "y">>}
FilePaths == {<<"a">>}
IOPaths == {Root}
DirPaths == {Root, <<"dev">>, <<"a">>}
CreatePaths == {<<"a">>}
CreateTypes == {"FILE"}
UnlinkPaths == {<<"a">>, <<"x">>}
MountPaths == {<<"a">>, <<"disk">>, <<"dev">>, <<"x">>}
DevicePaths == {<<"a">>, <<"x">>}
FsNames == {"ramfs", "fat32", "nofs"}
Handles == VFS_MIN_HANDLE .. (VFS_MIN_HANDLE + MaxHandles + 1)
Lens == 0 .. MaxLen
Positions == (0 .. (MaxSize + 1)) \cup {M - 1}
Whences == {0, SEEK_CUR, SEEK_END, SEEK_SET}
PermInputs == {{"u", "t"}}

VARIABLES
    vfs_initialized,   \* static bool vfs_initialized
    vfs_lock,          \* 0 when free, else the task that holds it
    tn,                \* the tnodes, by the path that names them
    ino,               \* inode memory: block address -> inode
    fdmem,             \* descriptor memory: block address -> node_desc
    vfs_openfiles,     \* handle -> descriptor block (0: no entry)
    vfs_next_handle,
    ttyfh,
    pc,                \* each task: "idle", or "crit" once it holds the lock
    fault,             \* the kernel stopped on a wild access
    last,              \* the operation that completed last, with its result
    issued,            \* the handles returned by vfs_open, in lock order
    held,              \* each task: the descriptor its handle lookup returned
    dev_lock,          \* 0 when free, else the task that holds it
    ino_lock,
    next_new_dev_id,
    next_new_ino_id,
    idpc,              \* each task: its position in an ID allocator
    dev_ids,           \* the IDs vfs_new_dev_id returned, in order
    ino_ids,           \* the IDs vfs_new_ino_id returned, in order
    gp,                \* the last direct call of vfs_get_parent_dir, its result
    walk               \* the ancestor walk of the vfs_open in progress

\* the state of the two ID allocators
idvars == <<dev_lock, ino_lock, next_new_dev_id, next_new_ino_id, idpc,
            dev_ids, ino_ids>>

\* the state of the code that works on path strings
strvars == <<gp, walk>>

vars == <<vfs_initialized, vfs_lock, tn, ino, fdmem, vfs_openfiles,
          vfs_next_handle, ttyfh, pc, fault, last, issued, held, idvars,
          strvars>>

(* -------------------------- back-end registry -------------------------- *)

\* vfs_init registers the providers in this order
vfs_fslist == <<"fat32", "ramfs", "ttyfs", "pipefs">>

vfs_get_fs(name) ==
    IF \E i \in 1 .. Len(vfs_fslist) : vfs_fslist[i] = name THEN name ELSE "none"

\* providers that need no backing block device
IsTemp(fs) == fs \in {"ramfs", "ttyfs", "pipefs"}

\* providers that supply the optional rmnode
HasRmnode(fs) == fs \in {"ramfs", "fat32"}

(* ------------------------------ the heap ------------------------------- *)

NoInode == [alive |-> FALSE, type |-> "FOLDER", perms |-> {}, size |-> 0,
            refcount |-> 0, fs |-> "none", child |-> << >>,
            mountpoint |-> NoPath]

NoTnode == [present |-> FALSE, inode |-> 0, st_nlink |-> 0, st_size |-> 0,
            st_mode |-> {}]

NoFd == [alive |-> FALSE, h |-> 0, path |-> NoPath, inode |-> 0,
         seek_pos |-> 0, mode |-> "READ", dangling |-> FALSE]

FreeInodes(I) == {a \in 1 .. MaxInodes : ~I[a].alive}
FreeFds(F) == {s \in 1 .. MaxFds : ~F[s].alive}

\* kmalloc: first fit
Lowest(S) == CHOOSE a \in S : \A b \in S : a <= b

vfs_alloc_inode(I, a, type, fs) ==
    [I EXCEPT ![a] = [alive |-> TRUE, type |-> type, perms |-> S_IRWXUGO,
                      size |-> 0, refcount |-> 0, fs |-> fs,
                      child |-> << >>, mountpoint |-> NoPath]]

\* kmfree of an inode: the block keeps its contents
FreeInode(I, a) == [I EXCEPT ![a].alive = FALSE]

\* the descriptors whose inode pointer now points into freed memory
MarkDangling(F, a) ==
    [s \in 1 .. MaxFds |->
        IF F[s].inode = a THEN [F[s] EXCEPT !.dangling = TRUE] ELSE F[s]]

Range(s) == {s[i] : i \in 1 .. Len(s)}
Remove(s, x) == SelectSeq(s, LAMBDA y : y # x)

\* mount points are left out
IS_FOLDER(i) == i.type = "FOLDER"

IS_TRAVERSABLE(i) == i.type \in {"FOLDER", "MOUNTPOINT"}

(* ---------------------------- path resolver ---------------------------- *)

IsChild(T, I, nxt, cur) ==
    /\ cur \in TreePaths
    /\ T[cur].inode # 0
    /\ nxt \in Range(I[T[cur].inode].child)

RECURSIVE ResolveFrom(_, _, _, _)
ResolveFrom(T, I, path, i) ==
    IF i = Len(path) THEN TRUE
    ELSE IF IsChild(T, I, SubSeq(path, 1, i + 1), SubSeq(path, 1, i))
         THEN ResolveFrom(T, I, path, i + 1)
         ELSE FALSE

\* vfs_path_to_node(path, NO_CREATE, 0) finds a tnode
Resolves(T, I, path) == ResolveFrom(T, I, path, 0)

\* vfs_path_to_node(path, CREATE, type): the missing components are created,
\* folders for the intermediate ones; a new inode takes its parent's provider
RECURSIVE CreateFrom(_, _, _, _, _)
CreateFrom(T, I, path, i, type) ==
    IF i = Len(path) THEN [tn |-> T, ino |-> I]
    ELSE LET cur == SubSeq(path, 1, i)
             nxt == SubSeq(path, 1, i + 1)
         IN  IF IsChild(T, I, nxt, cur)
             THEN CreateFrom(T, I, path, i + 1, type)
             ELSE LET a  == Lowest(FreeInodes(I))
                      p  == T[cur].inode
                      ty == IF i + 1 = Len(path) THEN type ELSE "FOLDER"
                      I1 == vfs_alloc_inode(I, a, ty, I[p].fs)
                      I2 == [I1 EXCEPT ![p].child = Append(@, nxt)]
                      T2 == [T EXCEPT ![nxt] =
                               [present |-> TRUE, inode |-> a, st_nlink |-> 1,
                                st_size |-> 0, st_mode |-> {}]]
                  IN  CreateFrom(T2, I2, path, i + 1, type)

vfs_path_to_node(T, I, path, type) == CreateFrom(T, I, path, 0, type)

\* the number of components of path that CREATE would have to allocate
RECURSIVE Missing(_, _, _, _)
Missing(T, I, path, i) ==
    IF i = Len(path) THEN 0
    ELSE IF IsChild(T, I, SubSeq(path, 1, i + 1), SubSeq(path, 1, i))
         THEN Missing(T, I, path, i + 1)
         ELSE Len(path) - i

(* ------------------- the state the operations work on ------------------ *)

World == [tn |-> tn, ino |-> ino, fdmem |-> fdmem, of |-> vfs_openfiles,
          nh |-> vfs_next_handle]

Commit(W) ==
    /\ tn' = W.tn
    /\ ino' = W.ino
    /\ fdmem' = W.fdmem
    /\ vfs_openfiles' = W.of
    /\ vfs_next_handle' = W.nh

\* ht_get on the open-file table: the descriptor block, 0 for NULL
vfs_handle_to_fd(OF, h) == IF h \in DOMAIN OF THEN OF[h] ELSE 0

\* no descriptor pointer in hand
NoHeld == [s |-> 0, h |-> 0]

\* vfs_get_parent_dir has not been called
NoParentDir == [path |-> << >>, ret |-> 0, parent |-> << >>, pset |-> FALSE,
                currdir |-> << >>, cset |-> FALSE, done |-> FALSE]

\* no vfs_open is walking up a path
NoWalk == [stage |-> "none", path |-> << >>, mode |-> "READ",
           curpath |-> << >>, parent |-> << >>, pn |-> NoPath, steps |-> 0,
           calls |-> 0, on |-> 0, arg |-> << >>]

\* not inside an ID allocator
NoId == [at |-> "idle", id |-> 0]

NoLast == [op |-> "none", h |-> 0, path |-> NoPath, ret |-> 0,
           len |-> 0, xfer |-> 0, pos |-> 0, whence |-> 0, pre_pos |-> 0,
           pre_size |-> 0, fd |-> 0, ino |-> 0, rm |-> FALSE, ref |-> 0,
           nlink |-> 0, rmfs |-> FALSE, how |-> "-"]

(* --------------------------- vfs_open, core ---------------------------- *)

RefInc(r) == r + 1

\* the counter is not advanced
NextHandleStuck(h) == h

NextHandle(h) == h + 1

\* the tail of vfs_open, once req is known: count the reference, build the
\* descriptor, copy the size to the stat record, hand out the next handle
OpenNode(W, path, mode) ==
    LET a  == W.tn[path].inode
        s  == Lowest(FreeFds(W.fdmem))
        fh == W.nh
    IN  [tn    |-> [W.tn EXCEPT ![path].st_size = W.ino[a].size],
         ino   |-> [W.ino EXCEPT ![a].refcount = RefInc(@)],
         fdmem |-> [W.fdmem EXCEPT ![s] =
                      [alive |-> TRUE, h |-> fh, path |-> path, inode |-> a,
                       seek_pos |-> 0, mode |-> mode, dangling |-> FALSE]],
         of    |-> [W.of EXCEPT ![fh] = s],
         nh    |-> NextHandle(fh)]

(* --------------------------- rmnode (back end) ------------------------- *)

\* provider.rmnode(tnode): the tnode leaves its parent's child vector and
\* the tnode and its inode are destroyed
Rmnode(W, path) ==
    LET a  == W.tn[path].inode
        pa == W.tn[Parent(path)].inode
        I1 == [W.ino EXCEPT ![pa].child = Remove(@, path)]
    IN  [W EXCEPT !.ino = FreeInode(I1, a),
                  !.tn = [W.tn EXCEPT ![path].present = FALSE],
                  !.fdmem = MarkDangling(W.fdmem, a)]

(* --------------------------- vfs_close, core --------------------------- *)

\* the decrement is lost
RefDecLost(r) == r

RefDec(r) == r - 1

\* the test that decides on rmnode, made on the descriptor's fields
CloseRemoves(refcount, nlink) == refcount = 0 /\ nlink = 0

\* uaf: what the reads of the freed descriptor see.
\*   "intact"  the block still holds the descriptor's fields
\*   "other"   the block was overwritten and the test comes out false
CloseNode(W, h, uaf) ==
    LET s  == W.of[h]
        d  == W.fdmem[s]
        I1 == [W.ino EXCEPT ![d.inode].refcount = RefDec(@)]
        W1 == [W EXCEPT !.ino = I1,
                        !.fdmem = [W.fdmem EXCEPT ![s] = NoFd],
                        !.of = [W.of EXCEPT ![h] = 0]]
        rm == /\ uaf = "intact"
              /\ CloseRemoves(I1[d.inode].refcount, W.tn[d.path].st_nlink)
              /\ HasRmnode(I1[d.inode].fs)
    IN  [w |-> IF rm THEN Rmnode(W1, d.path) ELSE W1, rm |-> rm]

(* --------------------------- vfs_mount, core --------------------------- *)

\* the children are not looked at
MountTargetOkAnyFolder(i) == i.type = "FOLDER"

\* the mount point must be an empty folder
MountTargetOk(i) == i.type = "FOLDER" /\ Len(i.child) = 0

\* kmfree(at->inode); at->inode = fs->mount(dev); at->inode->mountpoint = at
MountNode(W, path, fs) ==
    LET a  == W.tn[path].inode
        I1 == FreeInode(W.ino, a)
        r  == Lowest(FreeInodes(I1))
        I2 == vfs_alloc_inode(I1, r, "MOUNTPOINT", fs)
    IN  [W EXCEPT !.ino = [I2 EXCEPT ![r].mountpoint = path],
                  !.tn = [W.tn EXCEPT ![path].inode = r],
                  !.fdmem = MarkDangling(W.fdmem, a)]

(* -------------------------- vfs_refresh, core -------------------------- *)

\* provider.getdent(inode, i, &de): the entries of the back end's directory.
\* The RAM file system mounted at the root holds the file "a"; provider.sync
\* keeps the back end's size equal to the inode's.
Listing(W, a) ==
    IF W.ino[a].fs = "ramfs" /\ W.ino[a].mountpoint = Root
    THEN << [name |-> "a", type |-> "FILE",
             size |-> IF Resolves(W.tn, W.ino, <<"a">>)
                      THEN W.ino[W.tn[<<"a">>].inode].size
                      ELSE ListingSize] >>
    ELSE << >>

RECURSIVE RefreshFrom(_, _, _, _)
RefreshFrom(W, base, L, i) ==
    IF i > Len(L) THEN W
    ELSE LET path == Append(base, L[i].name)
             c    == vfs_path_to_node(W.tn, W.ino, path, L[i].type)
             a    == c.tn[path].inode
         IN  RefreshFrom([W EXCEPT !.tn = c.tn,
                                  !.ino = [c.ino EXCEPT ![a].size = L[i].size]],
                         base, L, i + 1)

RefreshNode(W, s) ==
    RefreshFrom(W, W.fdmem[s].path, Listing(W, W.fdmem[s].inode), 1)

(* ------------------------------ vfs_init ------------------------------- *)

Create(W, path, type) ==
    LET c == vfs_path_to_node(W.tn, W.ino, path, type)
    IN  [W EXCEPT !.tn = c.tn, !.ino = c.ino]

InitWorld ==
    LET W0 == [tn    |-> [p \in TreePaths |-> NoTnode],
               ino   |-> [a \in 1 .. MaxInodes |-> NoInode],
               fdmem |-> [s \in 1 .. MaxFds |-> NoFd],
               of    |-> [h \in Handles |-> 0],
               nh    |-> VFS_MIN_HANDLE]
        \* the root folder
        W1 == [W0 EXCEPT
                 !.ino = vfs_alloc_inode(W0.ino, Lowest(FreeInodes(W0.ino)),
                                         "FOLDER", "none"),
                 !.tn = [W0.tn EXCEPT ![Root] =
                           [present |-> TRUE,
                            inode |-> Lowest(FreeInodes(W0.ino)),
                            st_nlink |-> 1, st_size |-> 0,
                            st_mode |-> {"S_IFDIR"}]]]
        \* vfs_mount(NULL, "/", "ramfs"), then open, refresh, close
        W2 == MountNode(W1, Root, "ramfs")
        W3 == OpenNode(W2, Root, "READWRITE")
        W4 == RefreshNode(W3, W3.of[W2.nh])
        W5 == CloseNode(W4, W2.nh, "intact").w
        \* the folders of the devices
        W6 == Create(Create(W5, <<"disk">>, "FOLDER"), <<"dev">>, "FOLDER")
        W7 == MountNode(Create(W6, <<"dev", "tty">>, "FOLDER"),
                        <<"dev", "tty">>, "ttyfs")
        W8 == OpenNode(W7, <<"dev", "tty">>, "READWRITE")
        W9 == MountNode(Create(W8, <<"dev", "pipe">>, "FOLDER"),
                        <<"dev", "pipe">>, "pipefs")
    IN  [w |-> W9, ttyfh |-> W7.nh, issued |-> <<W2.nh, W7.nh>>]

Init ==
    /\ vfs_initialized = FALSE
    /\ vfs_lock = 0
    /\ tn = [p \in TreePaths |-> NoTnode]
    /\ ino = [a \in 1 .. MaxInodes |-> NoInode]
    /\ fdmem = [s \in 1 .. MaxFds |-> NoFd]
    /\ vfs_openfiles = [h \in Handles |-> 0]
    /\ vfs_next_handle = VFS_MIN_HANDLE
    /\ ttyfh = 0
    /\ pc = [t \in Tasks |-> "idle"]
    /\ fault = FALSE
    /\ last = NoLast
    /\ issued = << >>
    /\ held = [t \in Tasks |-> NoHeld]
    /\ dev_lock = 0
    /\ ino_lock = 0
    /\ next_new_dev_id = 1
    /\ next_new_ino_id = 1
    /\ idpc = [t \in Tasks |-> NoId]
    /\ dev_ids = << >>
    /\ ino_ids = << >>
    /\ gp = NoParentDir
    /\ walk = NoWalk

vfs_init(t) ==
    /\ ~fault
    /\ ~vfs_initialized
    /\ pc[t] = "idle"
    /\ vfs_lock = 0
    /\ vfs_initialized' = TRUE
    /\ Commit(InitWorld.w)
    /\ ttyfh' = InitWorld.ttyfh
    /\ issued' = InitWorld.issued
    /\ last' = [NoLast EXCEPT !.op = "init"]
    /\ UNCHANGED <<vfs_lock, pc, fault, held, idvars, strvars>>

(* ---------------------- entering and leaving a call -------------------- *)

Running == ~fault /\ vfs_initialized

\* task t is idle: it can run the unlocked part of an operation
Unlocked(t) == Running /\ pc[t] = "idle" /\ idpc[t].at = "idle"

\* task t holds vfs_lock: it can run the locked region of an operation
InCrit(t) == Running /\ pc[t] = "crit" /\ vfs_lock = t /\ idpc[t].at = "idle"

\* lock_lock(&vfs_lock)
Call(t) ==
    /\ Unlocked(t)
    /\ vfs_lock = 0
    /\ vfs_lock' = t
    /\ pc' = [pc EXCEPT ![t] = "crit"]
    /\ UNCHANGED <<held, idvars, strvars, vfs_initialized, tn, ino, fdmem, vfs_openfiles,
                   vfs_next_handle, ttyfh, fault, last, issued>>

\* the return without the lock_release
ReturnLocked(t) ==
    /\ vfs_lock' = vfs_lock
    /\ pc' = [pc EXCEPT ![t] = "idle"]
    /\ fault' = fault

\* lock_release(&vfs_lock) and return
Return(t) ==
    /\ vfs_lock' = 0
    /\ pc' = [pc EXCEPT ![t] = "idle"]
    /\ fault' = fault

\* return from a path that never took the lock
ReturnUnlocked(t) == UNCHANGED <<vfs_lock, pc, fault>>

\* the kernel stops inside the locked region
Stop(t) ==
    /\ fault' = TRUE
    /\ UNCHANGED <<vfs_lock, pc>>

\* the handles the tasks pass: those in the table and one closed handle
AllHandleInputs == {h \in Handles : vfs_openfiles[h] # 0} \cup {VFS_MIN_HANDLE}

\* the kernel's TTY handle is passed to vfs_read only
HandleInputs == AllHandleInputs \ {ttyfh}

\* every operation returns 0 for a handle it does not find
UnknownHandleZero(t, op, ret) ==
    /\ Unlocked(t)
    /\ \E h \in HandleInputs :
         /\ vfs_handle_to_fd(vfs_openfiles, h) = 0
         /\ last' = [NoLast EXCEPT !.op = op, !.h = h, !.ret = 0,
                       !.how = "nofd"]
    /\ ReturnUnlocked(t)
    /\ UNCHANGED <<held, idvars, strvars, vfs_initialized, tn, ino, fdmem,
                   vfs_openfiles, vfs_next_handle, ttyfh, issued>>

\* an operation whose handle lookup finds nothing returns without the lock
UnknownHandle(t, op, ret) ==
    /\ Unlocked(t)
    /\ \E h \in HandleInputs :
         /\ vfs_handle_to_fd(vfs_openfiles, h) = 0
         /\ last' = [NoLast EXCEPT !.op = op, !.h = h, !.ret = ret,
                       !.how = "nofd"]
    /\ ReturnUnlocked(t)
    /\ UNCHANGED <<held, idvars, strvars, vfs_initialized, tn, ino, fdmem, vfs_openfiles,
                   vfs_next_handle, ttyfh, issued>>

(* ------------------------------ vfs_create ----------------------------- *)

vfs_create(t) ==
    /\ InCrit(t)
    /\ \E path \in CreatePaths, type \in CreateTypes :
         LET exists == Resolves(tn, ino, path)
             room   == Cardinality(FreeInodes(ino)) >= Missing(tn, ino, path, 0)
         IN  /\ exists \/ room
             /\ Commit(IF exists THEN World ELSE Create(World, path, type))
             /\ last' = [NoLast EXCEPT !.op = "create", !.path = path,
                           !.ret = IF exists THEN -1 ELSE 0,
                           !.how = IF exists THEN "exists" ELSE "ok"]
    /\ Return(t)
    /\ UNCHANGED <<held, idvars, strvars, vfs_initialized, ttyfh, issued>>

(* ------------------------------ vfs_mount ------------------------------ *)

\* why vfs_mount goes to fail, "ok" when it does not
MountCheck(T, I, device, path, fsname) ==
    LET fs == vfs_get_fs(fsname)
    IN  IF fs = "none" THEN "nofs"
        ELSE IF ~IsTemp(fs) /\ ~Resolves(T, I, device) THEN "nodev"
        ELSE IF ~IsTemp(fs) /\ I[T[device].inode].type # "BLOCK_DEVICE"
             THEN "notblk"
        ELSE IF ~Resolves(T, I, path) THEN "noat"
        ELSE IF ~MountTargetOk(I[T[path].inode]) THEN "notempty"
        ELSE "ok"

vfs_mount(t) ==
    /\ InCrit(t)
    /\ \E device \in DevicePaths, path \in MountPaths, fsname \in FsNames,
          root \in {"inode", "null"} :
         LET why == MountCheck(tn, ino, device, path, fsname)
             W   == MountNode(World, path, vfs_get_fs(fsname))
         IN  /\ why # "ok" => root = "inode"
             /\ last' = [NoLast EXCEPT !.op = "mount", !.path = path,
                           !.ret = IF why = "ok" THEN 0 ELSE -1,
                           !.how = IF why = "ok" /\ root = "null"
                                   THEN "fault" ELSE why]
             /\ IF why # "ok"
                THEN Commit(World) /\ Return(t)
                ELSE IF root = "inode"
                THEN Commit(W) /\ Return(t)
                ELSE \* fs->mount returned NULL: at->inode->mountpoint
                     /\ Commit([W EXCEPT
                                  !.tn = [World.tn EXCEPT ![path].inode = 0],
                                  !.ino = FreeInode(World.ino,
                                                    World.tn[path].inode)])
                     /\ Stop(t)
    /\ UNCHANGED <<held, idvars, strvars, vfs_initialized, ttyfh, issued>>

(* ------------------------------- vfs_open ------------------------------ *)

\* the walk up the ancestors of a path that does not resolve
RECURSIVE WalkUp(_, _, _)
WalkUp(T, I, cur) ==
    IF Len(cur) = 0 THEN NoPath
    ELSE IF Resolves(T, I, Parent(cur)) THEN Parent(cur)
    ELSE WalkUp(T, I, Parent(cur))

\* provider.open can materialize a missing path under the ancestor found
CanMaterialize(T, I, path) ==
    /\ path \in TreePaths
    /\ WalkUp(T, I, path) = Parent(path)
    /\ I[T[Parent(path)].inode].fs # "none"
    /\ FreeInodes(I) # {}

\* paths, modes: the arguments the tasks pass
vfs_open(t, paths, modes) ==
    /\ InCrit(t)
    /\ FreeFds(fdmem) # {}
    /\ vfs_next_handle \in Handles
    /\ \E path \in paths, mode \in modes, req \in {"tnode", "null"} :
         LET found == Resolves(tn, ino, path)
             hasfs == found /\ ino[tn[path].inode].fs # "none"
             make  == ~found /\ req = "tnode"
             W0    == IF make THEN Create(World, path, "FILE") ELSE World
         IN  /\ make => CanMaterialize(tn, ino, path)
             /\ (found /\ ~hasfs) => req = "tnode"
             /\ IF ~found /\ req = "null"
                THEN \* goto fail
                     /\ Commit(World)
                     /\ issued' = issued
                     /\ last' = [NoLast EXCEPT !.op = "open", !.path = path,
                                   !.ret = VFS_INVALID_HANDLE,
                                   !.how = "notfound"]
                     /\ Return(t)
                ELSE IF found /\ req = "null"
                THEN \* provider.open returned NULL: req->inode->refcount++
                     /\ Commit(World)
                     /\ issued' = issued
                     /\ last' = [NoLast EXCEPT !.op = "open", !.path = path,
                                   !.how = "fault"]
                     /\ Stop(t)
                ELSE /\ Commit(OpenNode(W0, path, mode))
                     /\ issued' = Append(issued, vfs_next_handle)
                     /\ last' = [NoLast EXCEPT !.op = "open", !.path = path,
                                   !.ret = vfs_next_handle,
                                   !.h = vfs_next_handle,
                                   !.ino = W0.tn[path].inode,
                                   !.ref = W0.ino[W0.tn[path].inode].refcount,
                                   !.how = IF make THEN "made" ELSE "ok"]
                     /\ Return(t)
    /\ UNCHANGED <<held, idvars, strvars, vfs_initialized, ttyfh>>

(* ----------------------------- path strings ------------------------- *)

\* a C string is the sequence of its characters; a buffer also holds the
\* terminator
Chars == {"/", "a", "x"}
NUL == "NUL"
NullStr == <<"NULL">>
PathStrings == UNION {[1 .. n -> Chars] : n \in 0 .. MaxPathLen}

\* the byte in front of the parent buffer, which belongs to the caller
OobBytes == Chars \cup {NUL}

\* strcpy(buf, path)
StrCpy(path) == Append(path, NUL)

\* buf[idx], counted from 0; oob is the byte at buf[-1]
At(buf, idx, oob) == IF idx < 0 THEN oob ELSE buf[idx + 1]

\* buf[idx] = '\0'
Cut(buf, idx) == [buf EXCEPT ![idx + 1] = NUL]

\* the string that starts at buf[from]
RECURSIVE CStr(_, _)
CStr(buf, from) ==
    IF buf[from + 1] = NUL THEN << >>
    ELSE <<buf[from + 1]>> \o CStr(buf, from + 1)

\* the first loop of vfs_get_parent_dir: the trailing slashes are cut
RECURSIVE StripLoop(_, _, _)
StripLoop(buf, idx, oob) ==
    IF idx < 0 THEN [buf |-> buf, idx |-> idx]
    ELSE LET slash == At(buf, idx, oob) = "/"
             b1    == IF slash THEN Cut(buf, idx) ELSE buf
             i1    == IF slash THEN idx - 1 ELSE idx
         IN  IF At(b1, i1, oob) # "/" THEN [buf |-> b1, idx |-> i1]
             ELSE StripLoop(b1, i1, oob)

\* the second loop: the buffer is cut at the last slash
RECURSIVE CutLoop(_, _)
CutLoop(buf, idx) ==
    IF idx < 0 THEN [buf |-> buf, idx |-> idx]
    ELSE IF buf[idx + 1] = "/" THEN [buf |-> Cut(buf, idx), idx |-> idx]
    ELSE CutLoop(buf, idx - 1)

\* an empty parent is left empty
EmptyStays(parent) == parent

\* if (strlen(parent) == 0) strcpy(parent, "/")
EmptyToRoot(parent) == IF parent = << >> THEN <<"/">> ELSE parent

\* currdir: "NULL" or "buf"; pset, cset: the call wrote parent, currdir
vfs_get_parent_dir(path, currdir, oob) ==
    IF path = NullStr
    THEN [ret |-> -1, parent |-> << >>, pset |-> FALSE, currdir |-> << >>,
          cset |-> FALSE]
    ELSE LET s == StripLoop(StrCpy(path), Len(path) - 1, oob)
         IN  IF s.idx <= 0
             THEN [ret |-> -1, parent |-> CStr(Cut(s.buf, 0), 0),
                   pset |-> TRUE, currdir |-> << >>, cset |-> FALSE]
             ELSE LET c == CutLoop(s.buf, s.idx)
                      w == currdir # "NULL" /\ c.idx >= 0
                  IN  [ret |-> 0, parent |-> EmptyToRoot(CStr(c.buf, 0)),
                       pset |-> TRUE,
                       currdir |-> IF w THEN CStr(c.buf, c.idx + 1) ELSE << >>,
                       cset |-> w]

\* a call of vfs_get_parent_dir with both buffers
GetParentDir ==
    /\ \E path \in PathStrings \cup {NullStr}, oob \in OobBytes :
         LET r == vfs_get_parent_dir(path, "buf", oob)
         IN  gp' = [path |-> path, ret |-> r.ret, parent |-> r.parent,
                    pset |-> r.pset, currdir |-> r.currdir, cset |-> r.cset,
                    done |-> TRUE]
    /\ UNCHANGED <<vfs_initialized, vfs_lock, tn, ino, fdmem, vfs_openfiles,
                   vfs_next_handle, ttyfh, pc, fault, last, issued, held,
                   idvars, walk>>

\* the name of a component; the tree has no name of two letters of Chars
Name(c) == IF Len(c) = 1 THEN c[1] ELSE "other"

\* the resolver splits its argument on '/'
RECURSIVE Split(_, _)
Split(str, c) ==
    LET end == IF c = << >> THEN << >> ELSE <<Name(c)>>
    IN  IF str = << >> THEN end
        ELSE IF Head(str) = "/" THEN end \o Split(Tail(str), << >>)
        ELSE Split(Tail(str), Append(c, Head(str)))

ToPath(str) == Split(str, << >>)

IsAbs(str) == str # << >> /\ str[1] = "/"

\* vfs_path_to_node(str, NO_CREATE, 0) finds a tnode; rel: what the
\* resolver does with a string that is not an absolute path
StrResolves(T, I, str, rel) ==
    /\ IsAbs(str) \/ rel
    /\ Resolves(T, I, ToPath(str))

\* vfs_open on a path that does not resolve, up to the loop
OpenWalkStart(t, paths, modes) ==
    /\ InCrit(t)
    /\ FreeFds(fdmem) # {}
    /\ vfs_next_handle \in Handles
    /\ \E path \in paths, mode \in modes, rel \in BOOLEAN :
         /\ ~StrResolves(tn, ino, path, rel)
         /\ walk' = [NoWalk EXCEPT !.stage = "loop", !.path = path,
                       !.mode = mode, !.curpath = path]
    /\ pc' = [pc EXCEPT ![t] = "walk"]
    /\ UNCHANGED <<vfs_initialized, vfs_lock, tn, ino, fdmem, vfs_openfiles,
                   vfs_next_handle, ttyfh, fault, last, issued, held, idvars,
                   gp>>

\* one turn of the loop
OpenWalkStep(t) ==
    /\ Running
    /\ pc[t] = "walk"
    /\ walk.stage = "loop"
    /\ \E oob \in OobBytes, rel \in BOOLEAN :
         LET r == vfs_get_parent_dir(walk.curpath, "NULL", oob)
             w == [walk EXCEPT !.parent = r.parent, !.steps = @ + 1]
         IN  walk' = IF walk.curpath = r.parent
                     THEN [w EXCEPT !.stage = "out"]
                     ELSE IF StrResolves(tn, ino, r.parent, rel)
                     THEN [w EXCEPT !.stage = "out", !.pn = ToPath(r.parent)]
                     ELSE [w EXCEPT !.curpath = r.parent]
    /\ UNCHANGED <<vfs_initialized, vfs_lock, tn, ino, fdmem, vfs_openfiles,
                   vfs_next_handle, ttyfh, pc, fault, last, issued, held,
                   idvars, gp>>

\* after the loop: the provider of the ancestor is asked for the path
OpenWalkEnd(t) ==
    /\ Running
    /\ pc[t] = "walk"
    /\ walk.stage = "out"
    /\ \E req \in {"tnode", "null"} :
         LET path == ToPath(walk.path)
             call == /\ walk.pn # NoPath
                     /\ ino[tn[walk.pn].inode].fs # "none"
             W0   == Create(World, path, "FILE")
         IN  /\ req = "tnode" => /\ call
                                 /\ IsAbs(walk.path)
                                 /\ CanMaterialize(tn, ino, path)
             /\ walk' = [walk EXCEPT
                           !.stage = "done",
                           !.calls = IF call THEN @ + 1 ELSE @,
                           !.on = IF call THEN tn[walk.pn].inode ELSE 0,
                           !.arg = IF call THEN walk.path ELSE << >>]
             /\ IF req = "null"
                THEN \* goto fail
                     /\ Commit(World)
                     /\ issued' = issued
                     /\ last' = [NoLast EXCEPT !.op = "open", !.path = path,
                                   !.ret = VFS_INVALID_HANDLE,
                                   !.how = "notfound"]
                ELSE /\ Commit(OpenNode(W0, path, walk.mode))
                     /\ issued' = Append(issued, vfs_next_handle)
                     /\ last' = [NoLast EXCEPT !.op = "open", !.path = path,
                                   !.ret = vfs_next_handle,
                                   !.h = vfs_next_handle,
                                   !.ino = W0.tn[path].inode,
                                   !.ref = W0.ino[W0.tn[path].inode].refcount,
                                   !.how = "made"]
    /\ Return(t)
    /\ UNCHANGED <<vfs_initialized, ttyfh, held, idvars, gp>>

(* ------------------------------ vfs_close ------------------------------ *)

vfs_close(t) ==
    /\ InCrit(t)
    /\ \E h \in HandleInputs, uaf \in {"intact", "other", "fault"} :
         LET s == vfs_handle_to_fd(vfs_openfiles, h)
             d == fdmem[s]
             r == CloseNode(World, h, IF uaf = "fault" THEN "other" ELSE uaf)
         IN  IF s = 0
             THEN /\ uaf = "intact"
                  /\ Commit(World)
                  /\ last' = [NoLast EXCEPT !.op = "close", !.h = h,
                                !.ret = -1, !.how = "nofd"]
                  /\ Return(t)
             ELSE /\ Commit(r.w)
                  /\ last' = [NoLast EXCEPT !.op = "close", !.h = h,
                                !.fd = s, !.ino = d.inode, !.path = d.path,
                                !.rm = r.rm,
                                !.ref = RefDec(ino[d.inode].refcount),
                                !.nlink = tn[d.path].st_nlink,
                                !.rmfs = HasRmnode(ino[d.inode].fs),
                                !.how = uaf]
                  /\ IF uaf = "fault" THEN Stop(t) ELSE Return(t)
    /\ UNCHANGED <<held, idvars, strvars, vfs_initialized, ttyfh, issued>>

(* ------------------------------ vfs_unlink ----------------------------- *)

vfs_unlink(t) ==
    /\ InCrit(t)
    /\ \E path \in UnlinkPaths :
         LET found == Resolves(tn, ino, path)
             ok    == found /\ tn[path].st_nlink = 1
             a     == tn[path].inode
             W1    == [World EXCEPT !.tn = [tn EXCEPT ![path].st_nlink = 0]]
             rm    == ok /\ ino[a].refcount = 0 /\ HasRmnode(ino[a].fs)
         IN  /\ Commit(IF ~ok THEN World
                       ELSE IF rm THEN Rmnode(W1, path) ELSE W1)
             /\ last' = [NoLast EXCEPT !.op = "unlink", !.path = path,
                           !.ret = IF ok THEN 0 ELSE -1,
                           !.ino = IF found THEN a ELSE 0,
                           !.ref = IF found THEN ino[a].refcount ELSE 0,
                           !.rmfs = found /\ HasRmnode(ino[a].fs),
                           !.rm = rm,
                           !.how = IF ok THEN "ok"
                                   ELSE IF found THEN "nlink" ELSE "notfound"]
    /\ Return(t)
    /\ UNCHANGED <<held, idvars, strvars, vfs_initialized, ttyfh, issued>>

(* ------------------------------- vfs_read ------------------------------ *)

\* the truncation test: more is asked for than is left, and not the TTY
ReadClamps(seek_pos, len, size, handle, tty) ==
    (seek_pos + len) % M > size /\ handle # tty

\* the request is handed on as it is
ReadLenUnclamped(seek_pos, len, size, handle, tty) == len

\* the length handed to the back end
ReadLen(seek_pos, len, size, handle, tty) ==
    IF ReadClamps(seek_pos, len, size, handle, tty)
    THEN (size - seek_pos) % M
    ELSE len

\* the locked region of vfs_read on descriptor block s, found for handle h
ReadFd(t, s, h) ==
    /\ \E len \in Lens, status \in {0, -1} :
         LET d     == fdmem[s]
             i     == ino[d.inode]
             n     == ReadLen(d.seek_pos, len, i.size, h, ttyfh)
             atend == ReadClamps(d.seek_pos, len, i.size, h, ttyfh) /\ n = 0
             x     == IF atend \/ status = -1 THEN 0 ELSE n
         IN  /\ atend => status = 0
             /\ h = ttyfh => d.seek_pos + len <= MaxTty
             /\ fdmem' = [fdmem EXCEPT ![s].seek_pos = (d.seek_pos + x) % M]
             /\ last' = [NoLast EXCEPT !.op = "read", !.h = h, !.fd = s,
                           !.ino = d.inode, !.len = len, !.xfer = x,
                           !.ret = ToSigned(x), !.pre_pos = d.seek_pos,
                           !.pre_size = i.size,
                           !.how = IF atend THEN "end"
                                   ELSE IF status = -1 THEN "failed" ELSE "ok"]
    /\ Return(t)
    /\ UNCHANGED <<held, idvars, strvars, vfs_initialized, tn, ino, vfs_openfiles, vfs_next_handle,
                   ttyfh, issued>>

\* handles: the handles the tasks pass
vfs_read(t, handles) ==
    \/ UnknownHandle(t, "read", 0)
    \/ /\ InCrit(t)
       /\ \E h \in handles :
            /\ vfs_handle_to_fd(vfs_openfiles, h) # 0
            /\ ReadFd(t, vfs_handle_to_fd(vfs_openfiles, h), h)

(* ------------------------------- vfs_write ----------------------------- *)

\* the size is left alone
WriteSizeNoGrow(seek_pos, len, size) == size

\* the file grows when the write ends past its size
WriteSize(seek_pos, len, size) ==
    IF (seek_pos + len) % M > size THEN (seek_pos + len) % M ELSE size

\* the write moves seek_pos past what it wrote
WriteFdAdvance(t, s, h) ==
    /\ \E len \in Lens, status \in {0, -1} :
         LET d  == fdmem[s]
             i  == ino[d.inode]
             sz == WriteSize(d.seek_pos, len, i.size)
             x  == IF status = -1 THEN 0 ELSE len
         IN  /\ sz <= MaxSize \/ len = 0
             /\ ino' = [ino EXCEPT ![d.inode].size = sz]
             /\ tn' = [tn EXCEPT ![d.path].st_size = sz]
             /\ fdmem' = [fdmem EXCEPT ![s].seek_pos = (d.seek_pos + x) % M]
             /\ last' = [NoLast EXCEPT !.op = "write", !.h = h, !.fd = s,
                           !.ino = d.inode, !.path = d.path, !.len = len,
                           !.xfer = x, !.ret = ToSigned(x),
                           !.pre_pos = d.seek_pos, !.pre_size = i.size,
                           !.how = IF status = -1 THEN "failed" ELSE "ok"]
    /\ Return(t)
    /\ UNCHANGED <<held, idvars, strvars, vfs_initialized, vfs_openfiles, vfs_next_handle,
                   ttyfh, issued>>

\* the locked region of vfs_write
WriteFd(t, s, h) ==
    /\ \E len \in Lens, status \in {0, -1} :
         LET d  == fdmem[s]
             i  == ino[d.inode]
             sz == WriteSize(d.seek_pos, len, i.size)
             x  == IF status = -1 THEN 0 ELSE len
         IN  /\ sz <= MaxSize \/ len = 0
             /\ ino' = [ino EXCEPT ![d.inode].size = sz]
             /\ tn' = [tn EXCEPT ![d.path].st_size = sz]
             /\ last' = [NoLast EXCEPT !.op = "write", !.h = h, !.fd = s,
                           !.ino = d.inode, !.path = d.path, !.len = len,
                           !.xfer = x, !.ret = ToSigned(x),
                           !.pre_pos = d.seek_pos, !.pre_size = i.size,
                           !.how = IF status = -1 THEN "failed" ELSE "ok"]
    /\ Return(t)
    /\ UNCHANGED <<held, idvars, strvars, vfs_initialized, fdmem, vfs_openfiles, vfs_next_handle,
                   ttyfh, issued>>

\* a read-only descriptor: return 0 before the lock is taken
WriteReadOnly(t) ==
    /\ Unlocked(t)
    /\ \E h \in HandleInputs :
         LET s == vfs_handle_to_fd(vfs_openfiles, h)
         IN  /\ s # 0
             /\ fdmem[s].mode = "READ"
             /\ last' = [NoLast EXCEPT !.op = "write", !.h = h, !.fd = s,
                           !.ret = 0, !.how = "readonly"]
    /\ ReturnUnlocked(t)
    /\ UNCHANGED <<held, idvars, strvars, vfs_initialized, tn, ino, fdmem, vfs_openfiles,
                   vfs_next_handle, ttyfh, issued>>

vfs_write(t) ==
    \/ UnknownHandle(t, "write", 0)
    \/ WriteReadOnly(t)
    \/ /\ InCrit(t)
       /\ \E h \in HandleInputs :
            LET s == vfs_handle_to_fd(vfs_openfiles, h)
            IN  /\ s # 0
                /\ fdmem[s].mode # "READ"
                /\ WriteFd(t, s, h)

(* ------------------------------- vfs_seek ------------------------------ *)

\* SEEK_END adds, as lseek does
SeekOffsetAdditive(whence, pos, seek_pos, size) ==
    CASE whence = SEEK_SET -> ToSigned(pos)
      [] whence = SEEK_CUR -> ToSigned((seek_pos + pos) % M)
      [] whence = SEEK_END -> ToSigned((size + pos) % M)
      [] OTHER -> -1

\* int64_t offset, from the size_t operands
SeekOffset(whence, pos, seek_pos, size) ==
    CASE whence = SEEK_SET -> ToSigned(pos)
      [] whence = SEEK_CUR -> ToSigned((seek_pos + pos) % M)
      [] whence = SEEK_END -> ToSigned((size - pos) % M)
      [] OTHER -> -1

\* the end of the file is out of bounds too
SeekOutOfBoundsStrict(offset, size) ==
    offset >= ToSigned(size) \/ offset < 0

SeekOutOfBounds(offset, size) == offset > ToSigned(size) \/ offset < 0

\* the locked region of vfs_seek
SeekFd(t, s, h) ==
    /\ \E pos \in Positions, whence \in Whences :
         LET d   == fdmem[s]
             i   == ino[d.inode]
             off == SeekOffset(whence, pos, d.seek_pos, i.size)
             bad == SeekOutOfBounds(off, i.size)
         IN  /\ fdmem' = IF bad THEN fdmem
                         ELSE [fdmem EXCEPT ![s].seek_pos = off]
             /\ last' = [NoLast EXCEPT !.op = "seek", !.h = h, !.fd = s,
                           !.ino = d.inode, !.pos = pos, !.whence = whence,
                           !.pre_pos = d.seek_pos, !.pre_size = i.size,
                           !.ret = IF bad THEN -1 ELSE off,
                           !.how = IF bad THEN "bounds" ELSE "ok"]
    /\ Return(t)
    /\ UNCHANGED <<held, idvars, strvars, vfs_initialized, tn, ino, vfs_openfiles, vfs_next_handle,
                   ttyfh, issued>>

vfs_seek(t) ==
    \/ UnknownHandle(t, "seek", -1)
    \/ /\ InCrit(t)
       /\ \E h \in HandleInputs :
            /\ vfs_handle_to_fd(vfs_openfiles, h) # 0
            /\ SeekFd(t, vfs_handle_to_fd(vfs_openfiles, h), h)

(* ------------------------------ vfs_getdent ---------------------------- *)

\* the locked region of vfs_getdent
GetdentFd(t, s, h) ==
    /\ LET d   == fdmem[s]
           i   == ino[d.inode]
           ret == IF ~IS_TRAVERSABLE(i) THEN -1
                  ELSE IF d.seek_pos >= Len(i.child) THEN 0 ELSE 1
       IN  /\ fdmem' = IF ret = 1
                       THEN [fdmem EXCEPT ![s].seek_pos = (d.seek_pos + 1) % M]
                       ELSE fdmem
           /\ last' = [NoLast EXCEPT !.op = "getdent", !.h = h, !.fd = s,
                         !.ino = d.inode, !.pre_pos = d.seek_pos,
                         !.pre_size = i.size, !.ret = ret,
                         !.path = IF ret = 1 THEN i.child[d.seek_pos + 1]
                                  ELSE NoPath,
                         !.how = IF ret = -1 THEN "notdir" ELSE "ok"]
    /\ Return(t)
    /\ UNCHANGED <<held, idvars, strvars, vfs_initialized, tn, ino, vfs_openfiles, vfs_next_handle,
                   ttyfh, issued>>

vfs_getdent(t) ==
    \/ UnknownHandle(t, "getdent", -1)
    \/ /\ InCrit(t)
       /\ \E h \in HandleInputs :
            /\ vfs_handle_to_fd(vfs_openfiles, h) # 0
            /\ GetdentFd(t, vfs_handle_to_fd(vfs_openfiles, h), h)

(* ------------------------------ vfs_refresh ---------------------------- *)

\* the inodes the entries of the listing still need
RefreshNeeds(W, s) ==
    LET L == Listing(W, W.fdmem[s].inode)
    IN  Cardinality({k \in 1 .. Len(L) :
            ~Resolves(W.tn, W.ino, Append(W.fdmem[s].path, L[k].name))})

\* the locked region of vfs_refresh, on an inode of the RAM file system
RefreshFd(t, s, h) ==
    /\ ino[fdmem[s].inode].fs = "ramfs"
    /\ Cardinality(FreeInodes(ino)) >= RefreshNeeds(World, s)
    /\ Commit(RefreshNode(World, s))
    /\ last' = [NoLast EXCEPT !.op = "refresh", !.h = h, !.fd = s,
                  !.ino = fdmem[s].inode, !.how = "ok"]
    /\ Return(t)
    /\ UNCHANGED <<held, idvars, strvars, vfs_initialized, ttyfh, issued>>

vfs_refresh(t) ==
    \/ UnknownHandle(t, "refresh", -1)
    \/ /\ InCrit(t)
       /\ \E h \in HandleInputs :
            /\ vfs_handle_to_fd(vfs_openfiles, h) # 0
            /\ RefreshFd(t, vfs_handle_to_fd(vfs_openfiles, h), h)

(* ------------------------------- vfs_chmod ----------------------------- *)

\* no lock is taken anywhere in vfs_chmod
vfs_chmod(t) ==
    /\ Unlocked(t)
    /\ \E h \in HandleInputs, newperms \in PermInputs :
         LET s  == vfs_handle_to_fd(vfs_openfiles, h)
             d  == fdmem[s]
             ok == s # 0 /\ d.mode # "READ"
             p  == newperms \cap S_IRWXUGO
         IN  /\ ino' = IF ok THEN [ino EXCEPT ![d.inode].perms = p] ELSE ino
             /\ tn' = IF ok THEN [tn EXCEPT ![d.path].st_mode = @ \cup p]
                      ELSE tn
             /\ last' = [NoLast EXCEPT !.op = "chmod", !.h = h, !.fd = s,
                           !.ret = IF ok THEN 0 ELSE -1,
                           !.how = IF s = 0 THEN "nofd"
                                   ELSE IF ok THEN "ok" ELSE "readonly"]
    /\ ReturnUnlocked(t)
    /\ UNCHANGED <<held, idvars, strvars, vfs_initialized, fdmem, vfs_openfiles, vfs_next_handle,
                   ttyfh, issued>>

(* ------------------ the handle lookup before the lock ------------------ *)

\* vfs_read and vfs_seek call vfs_handle_to_fd before lock_lock: the task
\* carries the descriptor pointer while it waits for the lock

\* fd = vfs_handle_to_fd(handle), not NULL
Lookup(t) ==
    /\ Unlocked(t)
    /\ \E h \in HandleInputs :
         /\ vfs_handle_to_fd(vfs_openfiles, h) # 0
         /\ held' = [held EXCEPT ![t] =
                        [s |-> vfs_handle_to_fd(vfs_openfiles, h), h |-> h]]
    /\ pc' = [pc EXCEPT ![t] = "found"]
    /\ UNCHANGED <<idvars, strvars, vfs_initialized, vfs_lock, tn, ino, fdmem,
                   vfs_openfiles, vfs_next_handle, ttyfh, fault, last, issued>>

\* lock_lock(&vfs_lock), with the pointer in hand
Acquire(t) ==
    /\ Running
    /\ pc[t] = "found"
    /\ vfs_lock = 0
    /\ vfs_lock' = t
    /\ pc' = [pc EXCEPT ![t] = "locked"]
    /\ UNCHANGED <<held, idvars, strvars, vfs_initialized, tn, ino, fdmem,
                   vfs_openfiles, vfs_next_handle, ttyfh, fault, last, issued>>

\* task t is in the locked region with the pointer it looked up
InCritHeld(t) == Running /\ pc[t] = "locked" /\ vfs_lock = t

\* the locked region of vfs_read on the pointer: on the descriptor of the
\* handle, or on whatever descriptor kmalloc has since put in the block
ReadHeld(t) ==
    /\ InCritHeld(t)
    /\ fdmem[held[t].s].alive
    /\ ReadFd(t, held[t].s, held[t].h)

\* the locked region of vfs_seek on the pointer
SeekHeld(t) ==
    /\ InCritHeld(t)
    /\ fdmem[held[t].s].alive
    /\ SeekFd(t, held[t].s, held[t].h)

\* the locked region on a pointer into freed memory: the reads see the old
\* contents and the writes land in a free block, or the kernel stops
StaleAccess(t) ==
    /\ InCritHeld(t)
    /\ ~fdmem[held[t].s].alive
    /\ last' = [NoLast EXCEPT !.op = "stale", !.h = held[t].h,
                  !.fd = held[t].s, !.how = "stale"]
    /\ Return(t) \/ Stop(t)
    /\ UNCHANGED <<held, idvars, strvars, vfs_initialized, tn, ino, fdmem,
                   vfs_openfiles, vfs_next_handle, ttyfh, issued>>

(* -------------------------- vfs_tell, vfs_ioctl ------------------------ *)

\* no lock is taken in vfs_tell: it returns the size of the inode
vfs_tell(t) ==
    \/ UnknownHandle(t, "tell", 0)
    \/ /\ Unlocked(t)
       /\ \E h \in HandleInputs :
            LET s == vfs_handle_to_fd(vfs_openfiles, h)
            IN  /\ s # 0
                /\ last' = [NoLast EXCEPT !.op = "tell", !.h = h, !.fd = s,
                              !.ino = fdmem[s].inode,
                              !.ret = ToSigned(ino[fdmem[s].inode].size),
                              !.how = "ok"]
       /\ ReturnUnlocked(t)
       /\ UNCHANGED <<held, idvars, strvars, vfs_initialized, tn, ino, fdmem,
                      vfs_openfiles, vfs_next_handle, ttyfh, issued>>

\* providers that supply the optional ioctl
HasIoctl(fs) == fs \in {"ttyfs"}

\* no lock is taken in vfs_ioctl: it returns what the provider's ioctl
\* returns, -1 when the provider has none
vfs_ioctl(t) ==
    \/ UnknownHandle(t, "ioctl", -1)
    \/ /\ Unlocked(t)
       /\ \E h \in HandleInputs, result \in {0, -1} :
            LET s == vfs_handle_to_fd(vfs_openfiles, h)
            IN  /\ s # 0
                /\ HasIoctl(ino[fdmem[s].inode].fs) \/ result = -1
                /\ last' = [NoLast EXCEPT !.op = "ioctl", !.h = h, !.fd = s,
                              !.ino = fdmem[s].inode, !.ret = result,
                              !.how = "ok"]
       /\ ReturnUnlocked(t)
       /\ UNCHANGED <<held, idvars, strvars, vfs_initialized, tn, ino, fdmem,
                      vfs_openfiles, vfs_next_handle, ttyfh, issued>>

(* --------------------------- the ID allocators ------------------------- *)

\* the VFS state, which the allocators do not touch
vfsvars == <<vfs_initialized, vfs_lock, tn, ino, fdmem, vfs_openfiles,
             vfs_next_handle, ttyfh, pc, fault, last, issued, held,
             strvars>>

\* lock_lock does not wait
IdLockFreeAlways(l) == TRUE

\* lock_lock(&dev_lock), lock_lock(&ino_lock): the caller waits for the lock
IdLockFree(l) == l = 0

\* one step of task t in vfs_new_dev_id; the caller may hold vfs_lock or not
vfs_new_dev_id(t) ==
    /\ ~fault
    /\ \/ /\ idpc[t].at = "idle"
          /\ next_new_dev_id <= MaxIds
          /\ IdLockFree(dev_lock)
          /\ dev_lock' = t
          /\ idpc' = [idpc EXCEPT ![t] = [at |-> "dev_locked", id |-> 0]]
          /\ UNCHANGED <<next_new_dev_id, dev_ids>>
       \/ /\ idpc[t].at = "dev_locked"
          /\ idpc' = [idpc EXCEPT ![t] = [at |-> "dev_read",
                                          id |-> next_new_dev_id]]
          /\ UNCHANGED <<dev_lock, next_new_dev_id, dev_ids>>
       \/ /\ idpc[t].at = "dev_read"
          /\ next_new_dev_id' = next_new_dev_id + 1
          /\ idpc' = [idpc EXCEPT ![t].at = "dev_next"]
          /\ UNCHANGED <<dev_lock, dev_ids>>
       \/ /\ idpc[t].at = "dev_next"
          /\ dev_lock' = 0
          /\ dev_ids' = Append(dev_ids, idpc[t].id)
          /\ idpc' = [idpc EXCEPT ![t] = NoId]
          /\ UNCHANGED next_new_dev_id
    /\ UNCHANGED <<vfsvars, ino_lock, next_new_ino_id, ino_ids>>

\* one step of task t in vfs_new_ino_id
vfs_new_ino_id(t) ==
    /\ ~fault
    /\ \/ /\ idpc[t].at = "idle"
          /\ next_new_ino_id <= MaxIds
          /\ IdLockFree(ino_lock)
          /\ ino_lock' = t
          /\ idpc' = [idpc EXCEPT ![t] = [at |-> "ino_locked", id |-> 0]]
          /\ UNCHANGED <<next_new_ino_id, ino_ids>>
       \/ /\ idpc[t].at = "ino_locked"
          /\ idpc' = [idpc EXCEPT ![t] = [at |-> "ino_read",
                                          id |-> next_new_ino_id]]
          /\ UNCHANGED <<ino_lock, next_new_ino_id, ino_ids>>
       \/ /\ idpc[t].at = "ino_read"
          /\ next_new_ino_id' = next_new_ino_id + 1
          /\ idpc' = [idpc EXCEPT ![t].at = "ino_next"]
          /\ UNCHANGED <<ino_lock, ino_ids>>
       \/ /\ idpc[t].at = "ino_next"
          /\ ino_lock' = 0
          /\ ino_ids' = Append(ino_ids, idpc[t].id)
          /\ idpc' = [idpc EXCEPT ![t] = NoId]
          /\ UNCHANGED next_new_ino_id
    /\ UNCHANGED <<vfsvars, dev_lock, next_new_dev_id, dev_ids>>

(* --------------------------- the specifications ------------------------ *)

\* the tasks create, open, close, unlink and mount
NextLife ==
    \E t \in Tasks :
        \/ vfs_init(t)
        \/ Call(t)
        \/ vfs_create(t)
        \/ vfs_open(t, LifePaths, {"READWRITE"})
        \/ vfs_close(t)
        \/ vfs_unlink(t)
        \/ vfs_mount(t)

\* the tasks open, close, chmod and write
NextLock ==
    \E t \in Tasks :
        \/ vfs_init(t)
        \/ Call(t)
        \/ vfs_open(t, FilePaths, Modes)
        \/ vfs_close(t)
        \/ vfs_chmod(t)
        \/ vfs_write(t)

\* the tasks open, close and unlink, and read, write and seek
NextNoMount ==
    \E t \in Tasks :
        \/ vfs_init(t)
        \/ Call(t)
        \/ vfs_open(t, FilePaths, Modes)
        \/ vfs_close(t)
        \/ vfs_unlink(t)
        \/ vfs_read(t, HandleInputs)
        \/ vfs_write(t)
        \/ vfs_seek(t)

\* the tasks open and close, and read, write, seek, list and refresh
NextIO ==
    \E t \in Tasks :
        \/ vfs_init(t)
        \/ Call(t)
        \/ vfs_open(t, IOPaths, Modes)
        \/ vfs_close(t)
        \/ vfs_read(t, AllHandleInputs)
        \/ vfs_write(t)
        \/ vfs_seek(t)
        \/ vfs_getdent(t)
        \/ vfs_refresh(t)

SpecLife == Init /\ [][NextLife]_vars

SpecLock == Init /\ [][NextLock]_vars

SpecNoMount == Init /\ [][NextNoMount]_vars

SpecIO == Init /\ [][NextIO]_vars

\* the tasks open, close, mount, read and seek
NextCalls ==
    \E t \in Tasks :
        \/ vfs_init(t)
        \/ Call(t)
        \/ vfs_open(t, LifePaths, {"READWRITE"})
        \/ vfs_close(t)
        \/ vfs_mount(t)
        \/ vfs_read(t, HandleInputs)
        \/ vfs_seek(t)

SpecCalls == Init /\ [][NextCalls]_vars

\* the tasks open and close, and pass their handles to every operation
NextHandles ==
    \E t \in Tasks :
        \/ vfs_init(t)
        \/ Call(t)
        \/ vfs_open(t, FilePaths, Modes)
        \/ vfs_close(t)
        \/ vfs_read(t, HandleInputs)
        \/ vfs_write(t)
        \/ vfs_seek(t)
        \/ vfs_getdent(t)
        \/ vfs_refresh(t)
        \/ vfs_chmod(t)
        \/ vfs_tell(t)
        \/ vfs_ioctl(t)

SpecHandles == Init /\ [][NextHandles]_vars

\* the tasks open folders and files and list them
NextDir ==
    \E t \in Tasks :
        \/ vfs_init(t)
        \/ Call(t)
        \/ vfs_open(t, DirPaths, {"READWRITE"})
        \/ vfs_close(t)
        \/ vfs_getdent(t)

SpecDir == Init /\ [][NextDir]_vars

\* the tasks open and close, and read and seek with the lookup of the
\* handle and the locked region as separate steps
NextRace ==
    \E t \in Tasks :
        \/ vfs_init(t)
        \/ Call(t)
        \/ vfs_open(t, FilePaths, {"READWRITE"})
        \/ vfs_close(t)
        \/ Lookup(t)
        \/ Acquire(t)
        \/ ReadHeld(t)
        \/ SeekHeld(t)
        \/ StaleAccess(t)

SpecRace == Init /\ [][NextRace]_vars

\* the tasks allocate IDs, inside and outside the locked region of vfs_create
NextIds ==
    \E t \in Tasks :
        \/ vfs_init(t)
        \/ Call(t)
        \/ vfs_create(t)
        \/ vfs_new_dev_id(t)
        \/ vfs_new_ino_id(t)

SpecIds == Init /\ [][NextIds]_vars

\* every operation, with every argument
\* vfs_get_parent_dir on every string of the bounded length
NextParent == GetParentDir

SpecParent == Init /\ [][NextParent]_vars

\* the strings the tasks pass to vfs_open
WalkPaths == PathStrings

\* opens of paths that do not resolve, one loop turn at a time, with files
\* removed in between
NextWalk ==
    \E t \in Tasks :
        \/ vfs_init(t)
        \/ Call(t)
        \/ vfs_unlink(t)
        \/ OpenWalkStart(t, WalkPaths, {"READWRITE"})
        \/ OpenWalkStep(t)
        \/ OpenWalkEnd(t)

SpecWalk == Init /\ [][NextWalk]_vars

Next ==
    \/ NextLife \/ NextLock \/ NextNoMount \/ NextIO \/ NextCalls
    \/ NextHandles \/ NextDir \/ NextRace \/ NextIds \/ NextParent
    \/ NextWalk

Spec == Init /\ [][Next]_vars

(* ------------------------------ properties ----------------------------- *)

UserFds == {s \in 1 .. MaxFds : fdmem[s].alive}

\* the locked region of operation op, or its stop, is the step being taken
StepOf(op) ==
    /\ last'.op = op
    /\ \E t \in Tasks :
         /\ pc[t] = "crit"
         /\ pc'[t] = "idle" \/ (fault' /\ ~fault)

Max(a, b) == IF a >= b THEN a ELSE b

\* C1: the refcount of every inode equals the number of live descriptors
\* that reference it (so an open followed by the close of its handle leaves
\* the refcount as it was)
C1_RefcountBalance ==
    \A a \in 1 .. MaxInodes :
        ino[a].alive =>
            ino[a].refcount = Cardinality({s \in UserFds : fdmem[s].inode = a})

\* two handles were opened on one inode and one of them was closed
C1_Witness ==
    /\ last.op = "close"
    /\ last.how = "intact"
    /\ ino[last.ino].alive
    /\ ino[last.ino].refcount = 1
    /\ Len(issued) = 4

\* C2: rmnode is invoked by an unlink exactly when no handle is open, and by
\* a close of an unlinked node exactly when it closes the last handle
C2_UnlinkOnLastClose ==
    /\ (last.op = "unlink" /\ last.ret = 0 /\ last.rmfs)
           => (last.rm <=> last.ref = 0)
    /\ (last.op = "close" /\ last.how # "nofd" /\ last.rmfs /\ last.nlink = 0)
           => (last.rm <=> last.ref = 0)

\* C3: the handles vfs_open returns are strictly increasing in lock order,
\* never below VFS_MIN_HANDLE, and every handle in the table is one of them
C3_HandleMonotonic ==
    /\ \A i, j \in 1 .. Len(issued) : i < j => issued[i] < issued[j]
    /\ \A i \in 1 .. Len(issued) :
           issued[i] >= VFS_MIN_HANDLE /\ issued[i] < vfs_next_handle
    /\ \A h \in Handles :
           vfs_openfiles[h] # 0 => \E i \in 1 .. Len(issued) : issued[i] = h

\* a handle was closed and a later open returned a new one
C3_Witness ==
    /\ Len(issued) = 4
    /\ vfs_openfiles[issued[3]] = 0
    /\ vfs_openfiles[issued[4]] # 0

\* C4: after vfs_init, a step that changes the tree, the handle table, an
\* inode, a tnode or a descriptor is the locked region of the task that
\* holds vfs_lock
C4_MutationUnderLock ==
    [][(vfs_initialized /\
        <<tn, ino, fdmem, vfs_openfiles, vfs_next_handle>>' #
        <<tn, ino, fdmem, vfs_openfiles, vfs_next_handle>>)
       => (vfs_lock # 0 /\ pc[vfs_lock] = "crit"
           /\ (pc'[vfs_lock] = "idle" \/ fault'))]_vars

\* C5: no live descriptor references an inode that was freed
C5_NoDanglingDescriptor ==
    \A s \in UserFds : ino[fdmem[s].inode].alive /\ ~fdmem[s].dangling

\* the mount point of a vfs_mount is not an empty folder
BadMountPoint(path) ==
    \/ ~Resolves(tn, ino, path)
    \/ ino[tn[path].inode].type # "FOLDER"
    \/ Len(ino[tn[path].inode].child) > 0

\* C6: vfs_mount onto a path that does not resolve, is not a folder or is
\* a folder with a child returns -1 and changes nothing
C6_BadMountKeepsTree ==
    [][(StepOf("mount") /\ BadMountPoint(last'.path))
       => (last'.ret = -1 /\ ~fault'
           /\ UNCHANGED <<tn, ino, fdmem, vfs_openfiles, vfs_next_handle>>)]_vars

\* a mount onto a folder with children has failed
C6_Witness ==
    /\ last.op = "mount"
    /\ last.ret = -1
    /\ Resolves(tn, ino, last.path)
    /\ ino[tn[last.path].inode].type = "FOLDER"
    /\ Len(ino[tn[last.path].inode].child) > 0

\* C7: a read on a handle other than the TTY's transfers at most
\* size - seek_pos bytes (none when that is not positive), returns 0 at the
\* end of the file, and does not move seek_pos beyond the size
C7_ReadClamped ==
    (last.op = "read" /\ last.how # "nofd" /\ last.h # ttyfh) =>
        /\ last.xfer <= Max(0, last.pre_size - last.pre_pos)
        /\ last.pre_pos = last.pre_size => last.ret = 0
        /\ fdmem[last.fd].seek_pos # last.pre_pos
               => fdmem[last.fd].seek_pos <= last.pre_size

\* C8: a write that ends past the end of the file makes seek_pos + len the
\* size of the inode, any other write leaves the size alone, and the tnode's
\* st_size is the inode's size when vfs_write returns
C8_WriteGrowth ==
    (last.op = "write" /\ last.how \in {"ok", "failed"}) =>
        /\ last.pre_pos + last.len > last.pre_size
               => ino[last.ino].size = last.pre_pos + last.len
        /\ last.pre_pos + last.len <= last.pre_size
               => ino[last.ino].size = last.pre_size
        /\ tn[last.path].st_size = ino[last.ino].size

\* a write went past the end of the file
C8_Witness ==
    /\ last.op = "write"
    /\ last.how = "ok"
    /\ last.pre_pos > 0
    /\ last.pre_pos + last.len > last.pre_size

\* C9: vfs_seek(h, p, SEEK_SET) stores and returns p when p <= size, and
\* returns -1 and leaves seek_pos alone otherwise
C9_SeekSetBounds ==
    (last.op = "seek" /\ last.how # "nofd" /\ last.whence = SEEK_SET) =>
        IF last.pos <= last.pre_size
        THEN last.ret = last.pos /\ fdmem[last.fd].seek_pos = last.pos
        ELSE last.ret = -1 /\ fdmem[last.fd].seek_pos = last.pre_pos

\* a seek to the very end of a file that is not empty
C9_Witness ==
    /\ last.op = "seek"
    /\ last.whence = SEEK_SET
    /\ last.pos = last.pre_size
    /\ last.pos > 0
    /\ last.ret = last.pos

\* the offset vfs_seek is specified to target for a whence, in the 64-bit arithmetic of C
C10_Target ==
    CASE last.whence = SEEK_SET -> ToSigned(last.pos)
      [] last.whence = SEEK_CUR -> ToSigned((last.pre_pos + last.pos) % M)
      [] last.whence = SEEK_END -> last.pre_size - last.pos
      [] OTHER -> -1

\* C10: SEEK_CUR targets seek_pos + pos and SEEK_END targets size - pos; a
\* target in [0, size] is stored and returned, any other target and any
\* other whence gives -1 and leaves seek_pos alone
C10_SeekWhence ==
    (last.op = "seek" /\ last.how # "nofd") =>
        IF /\ last.whence \in {SEEK_SET, SEEK_CUR, SEEK_END}
           /\ C10_Target >= 0
           /\ C10_Target <= last.pre_size
        THEN last.ret = C10_Target /\ fdmem[last.fd].seek_pos = C10_Target
        ELSE last.ret = -1 /\ fdmem[last.fd].seek_pos = last.pre_pos

\* a seek from the end landed inside the file
C10_Witness ==
    /\ last.op = "seek"
    /\ last.whence = SEEK_END
    /\ last.pos > 0
    /\ last.ret = last.pre_size - last.pos
    /\ fdmem[last.fd].seek_pos = last.ret

\* C11: the IDs each allocator has returned are 1, 2, 3, ... in the order
\* of return, whatever the interleaving of the callers and whether or not a
\* caller holds vfs_lock
C11_IdsDistinctIncreasing ==
    /\ \A i \in 1 .. Len(dev_ids) : dev_ids[i] = i
    /\ \A i \in 1 .. Len(ino_ids) : ino_ids[i] = i

\* both tasks have been through both allocators, one of them holding vfs_lock
C11_Witness ==
    /\ Len(dev_ids) >= 2
    /\ Len(ino_ids) >= 2
    /\ \E t \in Tasks : vfs_lock = t /\ idpc[t].at = "dev_next"
    /\ \E t \in Tasks : vfs_lock # t /\ idpc[t].at = "ino_locked"

\* C12: a vfs_open that returns, of a path whose node is unlinked but not
\* yet destroyed (it resolves, st_nlink is 0), returns VFS_INVALID_HANDLE and
\* leaves the refcount of the inode as it was
C12_NoOpenAfterUnlink ==
    [][(/\ StepOf("open")
        /\ ~fault'
        /\ Resolves(tn, ino, last'.path)
        /\ tn[last'.path].st_nlink = 0)
       => (/\ last'.ret = VFS_INVALID_HANDLE
           /\ ino'[tn[last'.path].inode].refcount =
                  ino[tn[last'.path].inode].refcount)]_vars

\* C14: a vfs_open that obtains no tnode (nothing resolves and nothing is
\* materialized, or the provider's open returns none for a path that
\* resolved) returns VFS_INVALID_HANDLE with the lock released and with the
\* refcounts, the descriptors, the table and the handle counter unchanged
C14_OpenFailureCommitsNothing ==
    [][(StepOf("open") /\ last'.how \in {"notfound", "fault"})
       => (/\ last'.ret = VFS_INVALID_HANDLE
           /\ ~fault'
           /\ vfs_lock' = 0
           /\ UNCHANGED <<tn, ino, fdmem, vfs_openfiles,
                          vfs_next_handle>>)]_vars

\* C15: a vfs_mount with an unknown provider, with a missing or non-block
\* device for a provider that needs one, or whose provider returns no root
\* inode returns -1 with the lock released and the tree unchanged; after a
\* successful vfs_mount the mount tnode names the provider's root and the
\* root's mountpoint is the mount tnode
C15_MountFailure ==
    [][StepOf("mount")
       => (/\ last'.how \in {"nofs", "nodev", "notblk", "fault"}
                => (/\ last'.ret = -1
                    /\ ~fault'
                    /\ vfs_lock' = 0
                    /\ UNCHANGED <<tn, ino, fdmem, vfs_openfiles,
                                   vfs_next_handle>>)
           /\ last'.how = "ok"
                => (/\ last'.ret = 0
                    /\ ino'[tn'[last'.path].inode].alive
                    /\ ino'[tn'[last'.path].inode].type = "MOUNTPOINT"
                    /\ ino'[tn'[last'.path].inode].mountpoint
                           = last'.path))]_vars

\* C13: a task that has returned from a VFS call does not hold vfs_lock:
\* the lock is held only by a task inside a locked region
C13_LockReleased ==
    /\ \A t \in Tasks : pc[t] = "idle" => vfs_lock # t
    /\ vfs_lock # 0 => pc[vfs_lock] = "crit"

\* every task is back from its call, the last one from a failure path
C13_Witness ==
    /\ \A t \in Tasks : pc[t] = "idle"
    /\ vfs_lock = 0
    /\ \/ last.op = "mount" /\ last.how \in {"nofs", "nodev", "notblk", "noat"}
       \/ last.op = "seek" /\ last.how = "bounds"
       \/ last.op = "read" /\ last.how \in {"end", "failed"}
       \/ last.op = "open" /\ last.how = "notfound"

\* what an operation returns for a handle that is not in the table
UnknownHandleResult(op) == IF op \in {"read", "write", "tell"} THEN 0 ELSE -1

\* C16: a handle that vfs_open returned and that is no longer in the table
\* never gets an entry again; an operation on a handle that is not in the
\* table changes nothing and returns -1 (0 for read, write and tell)
C16_ClosedHandleStaysClosed ==
    [][/\ \A h \in Range(issued) :
            vfs_openfiles[h] = 0 => vfs_openfiles'[h] = 0
       /\ last'.how = "nofd"
            => /\ last'.ret = UnknownHandleResult(last'.op)
               /\ UNCHANGED <<tn, ino, fdmem, vfs_openfiles,
                              vfs_next_handle>>]_vars

\* a handle was closed, another was opened after it, and a second close of
\* the first has returned -1
C16_Witness ==
    /\ last.op = "close"
    /\ last.how = "nofd"
    /\ last.ret = -1
    /\ last.h \in Range(issued)
    /\ \E h \in Range(issued) : h > last.h /\ vfs_openfiles[h] # 0 /\ h # ttyfh

\* C17: on a handle that only vfs_getdent is used on, seek_pos counts the
\* entries returned and never passes the number of children; a vfs_getdent at
\* position k < n returns 1 with child k and advances by one, at position n
\* it returns 0 and does not advance, and on an inode that is neither a
\* folder nor a mount point it returns -1 and does not advance
C17_GetdentWalk ==
    /\ \A s \in UserFds :
           ino[fdmem[s].inode].type \in {"FOLDER", "MOUNTPOINT"}
               => fdmem[s].seek_pos <= Len(ino[fdmem[s].inode].child)
    /\ (last.op = "getdent" /\ last.how # "nofd") =>
           LET i   == ino[last.ino]
               pos == fdmem[last.fd].seek_pos
           IN  IF i.type \notin {"FOLDER", "MOUNTPOINT"}
               THEN last.ret = -1 /\ pos = last.pre_pos
               ELSE IF last.pre_pos < Len(i.child)
               THEN /\ last.ret = 1
                    /\ last.path = i.child[last.pre_pos + 1]
                    /\ pos = last.pre_pos + 1
               ELSE last.ret = 0 /\ pos = last.pre_pos

\* every child of a mount point with three children was returned, and the
\* next vfs_getdent has returned 0
C17_Witness ==
    /\ last.op = "getdent"
    /\ last.ret = 0
    /\ ino[last.ino].type = "MOUNTPOINT"
    /\ Len(ino[last.ino].child) = 3
    /\ last.pre_pos = 3
    /\ fdmem[last.fd].seek_pos = 3

\* C18: a read whose back end fails returns 0 and leaves seek_pos alone; a
\* read whose back end succeeds returns the requested length, cut to
\* size - seek_pos when the request goes past the end of the file, and
\* advances seek_pos by what it returns
C18_ReadResult ==
    (last.op = "read" /\ last.how \in {"ok", "failed"} /\ last.h # ttyfh) =>
        IF last.how = "failed"
        THEN last.ret = 0 /\ fdmem[last.fd].seek_pos = last.pre_pos
        ELSE /\ last.ret = IF last.pre_pos + last.len > last.pre_size
                           THEN last.pre_size - last.pre_pos
                           ELSE last.len
             /\ fdmem[last.fd].seek_pos = last.pre_pos + last.ret

\* a read that was cut to what is left of the file has advanced seek_pos
C18_Witness ==
    /\ last.op = "read"
    /\ last.how = "ok"
    /\ last.pre_pos > 0
    /\ last.len = 2
    /\ last.pre_pos + last.len > last.pre_size
    /\ last.ret = 1
    /\ fdmem[last.fd].seek_pos = last.pre_pos + 1

\* C19: a write whose back end fails returns 0 and leaves the size of the
\* inode and the tnode's st_size as they were before the call
C19_FailedWriteKeepsSize ==
    (last.op = "write" /\ last.how = "failed") =>
        /\ last.ret = 0
        /\ ino[last.ino].size = last.pre_size
        /\ tn[last.path].st_size = last.pre_size

\* C20: a task that is in the locked region of a read or a seek works on
\* the live descriptor of the handle it was called with, never on a freed
\* descriptor block nor on a block that has since been given to another handle
C20_NoUseAfterClose ==
    \A t \in Tasks :
        pc[t] = "locked" =>
            /\ fdmem[held[t].s].alive
            /\ fdmem[held[t].s].h = held[t].h

\* C21: every live descriptor other than the TTY's has seek_pos within the
\* size of its inode
C21_SeekWithinSize ==
    \A s \in UserFds :
        (fdmem[s].h # ttyfh /\ ino[fdmem[s].inode].alive)
            => fdmem[s].seek_pos <= ino[fdmem[s].inode].size

\* an operation on a live descriptor has returned
OpDone(l) == l.op \in {"read", "write"} /\ l.how \in {"ok", "failed", "end"}

\* C22: a write, failed or not, leaves seek_pos where it was, so that the
\* read or the write that follows it on the same handle starts at the offset
\* at which the write started
C22_WriteKeepsSeekPos ==
    [][/\ (StepOf("write") /\ last'.how \in {"ok", "failed"})
            => fdmem'[last'.fd].seek_pos = last'.pre_pos
       /\ (/\ last.op = "write"
           /\ last.how \in {"ok", "failed"}
           /\ OpDone(last')
           /\ last'.h = last.h)
            => last'.pre_pos = last.pre_pos]_vars

\* a one-byte write at offset 1 was refused by the back-end and the
\* descriptor still stands at offset 1
C22_Witness ==
    /\ last.op = "write"
    /\ last.how = "failed"
    /\ last.len = 1
    /\ last.pre_pos = 1
    /\ fdmem[last.fd].seek_pos = 1

\* pn is the longest proper prefix of path p that resolves
NearestAncestor(T, I, p, pn) ==
    \E k \in 0 .. (Len(p) - 1) :
        /\ pn = SubSeq(p, 1, k)
        /\ Resolves(T, I, pn)
        /\ \A j \in (k + 1) .. (Len(p) - 1) : ~Resolves(T, I, SubSeq(p, 1, j))

\* C23: every turn of the ancestor walk of vfs_open either leaves the loop
\* or makes the current path strictly shorter, so the walk of a path of
\* length n ends within n + 1 turns; for an absolute path it ends at the
\* nearest ancestor that resolves; the provider's open is then called at most
\* once, on the inode of that ancestor and with the path vfs_open was given
C23_AncestorWalk ==
    [][/\ (walk.stage = "loop" /\ walk' # walk)
            => /\ \/ walk'.stage = "out"
                  \/ Len(walk'.curpath) < Len(walk.curpath)
               /\ walk'.steps <= Len(walk'.path) + 1
               /\ (walk'.stage = "out" /\ IsAbs(walk'.path))
                    => NearestAncestor(tn, ino, ToPath(walk'.path), walk'.pn)
       /\ (walk.stage = "out" /\ walk'.stage = "done")
            => /\ walk'.calls <= 1
               /\ walk'.calls = 1
                    => /\ walk.pn # NoPath
                       /\ walk'.on = tn[walk.pn].inode
                       /\ walk'.arg = walk.path]_vars

\* the open of "/x/a" walked over "/x" to the root in two turns and called
\* the root's provider once
C23_Witness ==
    /\ walk.stage = "done"
    /\ walk.path = <<"/", "x", "/", "a">>
    /\ walk.steps = 2
    /\ walk.pn = Root
    /\ walk.calls = 1
    /\ walk.arg = walk.path

\* the string without its trailing slashes
RECURSIVE TrailingCut(_)
TrailingCut(str) ==
    IF str = << >> \/ str[Len(str)] # "/" THEN str
    ELSE TrailingCut(SubSeq(str, 1, Len(str) - 1))

\* the position of the last '/' of the string, 0 if it has none
LastSlash(str) ==
    IF \E i \in 1 .. Len(str) : str[i] = "/"
    THEN CHOOSE i \in 1 .. Len(str) :
            /\ str[i] = "/"
            /\ \A j \in (i + 1) .. Len(str) : str[j] # "/"
    ELSE 0

\* C24: for a non-null path, with its trailing slashes ignored,
\* vfs_get_parent_dir returns 0 with the prefix before the last '/' as parent
\* ("/" when that prefix is empty) and the component after it as basename;
\* a path without parent ("/" or a name without '/') gives -1 and parent "/"
C24_ParentAndBasename ==
    (gp.done /\ gp.path # NullStr) =>
        LET str == TrailingCut(gp.path)
            k   == LastSlash(str)
        IN  IF k = 0
            THEN gp.ret = -1 /\ gp.parent = <<"/">>
            ELSE /\ gp.ret = 0
                 /\ gp.parent = IF k = 1 THEN <<"/">>
                                ELSE SubSeq(str, 1, k - 1)
                 /\ gp.cset
                 /\ gp.currdir = SubSeq(str, k + 1, Len(str))

====
